---- MODULE Spec2Model ----
(***************************************************************************)
(* Model of nuitka/utils/WindowsResources.py: listing, extracting, adding, *)
(* replacing and deleting the resources of a Windows binary through the    *)
(* kernel32 resource API (LoadLibraryEx / EnumResourceNames / FindResource *)
(* / LoadResource / BeginUpdateResource / UpdateResource /                 *)
(* EndUpdateResource).                                                     *)
(*                                                                         *)
(* The Python functions are the actions; the kernel32 calls they make are  *)
(* operators over the OS state (the resource directory of each file, the   *)
(* table of mapped modules, the table of open update handles).  Every OS   *)
(* call may fail: its outcome is an input of the action that makes it.     *)
(***************************************************************************)
EXTENDS Integers, Sequences, FiniteSets, TLC

VARIABLES
    files,      \* path -> resource directory of the binary at that path
    modules,    \* OS table: mapped library handle -> path
    sessions,   \* OS table: open update handle -> [path, pending]
    nextHandle, \* the next handle value the OS hands out
    pc,         \* the caller's position in the Python code
    frame,      \* arguments and locals of the call in progress
    oslog,      \* kernel32 calls made by the call in progress, in order
    outcome,    \* how the call in progress ended: "none", "returned", "raised"
    before,     \* files and open handles when the call in progress began
    history,    \* how the caller's earlier calls ended and the update
                \* handles they committed, oldest first
    wintypes,   \* the process has imported the submodule ctypes.wintypes
    callsLeft   \* calls the caller may still make

vars == << files, modules, sessions, nextHandle, pc, frame, oslog, outcome,
           before, history, wintypes, callsLeft >>

----------------------------------------------------------------------------
(* Program constants *)

RT_MANIFEST == 24
RT_RCDATA == 10
RT_GROUP_ICON == 14
RT_ICON == 3

(* Bounds of the model *)

MaxName == 2     \* resource identifiers are the integer ids 1..MaxName
MaxLang == 1     \* language ids are 0 (neutral) .. MaxLang
MaxLen == 1      \* payloads are byte strings of at most MaxLen bytes
MaxRes == 2      \* a binary initially holds at most MaxRes resources
MaxBatch == 2    \* res_names lists have at most MaxBatch elements
MaxCalls == 2    \* top-level calls in a row in SpecSeq

Kinds == {RT_ICON, RT_MANIFEST}
Names == 1..MaxName
Langs == 0..MaxLang
Bytes == {0, 255}
Data == UNION {[1..n -> Bytes] : n \in 0..MaxLen}

\* Python's None / a C NULL pointer is the empty option, a value v is <<v>>.
None == << >>
Some(v) == << v >>

ValidPaths == {"a", "b"}
Paths == ValidPaths \cup {"missing"}

Entry == [kind : Kinds, name : Names, lang : Langs, data : Data]

KeyOf(e) == << e.kind, e.name, e.lang >>

----------------------------------------------------------------------------
(* The OS resource subsystem, as the code relies on it *)

RECURSIVE SortedNames(_)
SortedNames(S) ==
    IF S = {} THEN << >>
    ELSE LET m == CHOOSE x \in S : \A y \in S : x <= y
         IN  << m >> \o SortedNames(S \ {m})

\* EnumResourceNamesA reports each name once, whatever its languages, in the
\* order of the resource directory, which is sorted by id.
EnumResourceNames(dir, kind) ==
    SortedNames({e.name : e \in {x \in dir : x.kind = kind}})

\* FindResourceA(hModule, lpName, lpType) looks the name up with the neutral
\* language: the neutral entry when there is one, else an entry chosen by
\* the locale of the calling thread.
FindResourceA(dir, name, kind) ==
    LET cand == {e \in dir : e.kind = kind /\ e.name = name}
        neutral == {e \in cand : e.lang = 0}
    IN  IF neutral /= {} THEN neutral ELSE cand

\* SizeofResource(hModule, hResource): 0 for a NULL hResource.
SizeofResource(hResource) ==
    IF hResource = None THEN 0 ELSE Len(hResource[1].data)

\* LockResource(hData): the address of the block, NULL for a NULL hData.
LockResource(hData) == hData

\* One staged operation applied to a directory: the entry of that (kind,
\* name, language) is replaced, or removed when no data was given.
ApplyOp(dir, o) ==
    LET rest == {e \in dir : KeyOf(e) /= << o.kind, o.name, o.lang >>}
    IN  IF o.data = None THEN rest
        ELSE rest \cup {[kind |-> o.kind, name |-> o.name, lang |-> o.lang,
                         data |-> o.data[1]]}

RECURSIVE ApplyAll(_, _)
ApplyAll(dir, pending) ==
    IF pending = << >> THEN dir
    ELSE ApplyAll(ApplyOp(dir, Head(pending)), Tail(pending))

\* UpdateResourceA(hUpdate, lpType, lpName, wLanguage, lpData, cbData) queues
\* cbData bytes of lpData, or a deletion when lpData is NULL.
UpdateResourceA(sess, h, kind, name, lang, lpData, cbData) ==
    LET o == [kind |-> kind, name |-> name, lang |-> lang,
              data |-> IF lpData = None THEN None
                       ELSE Some(SubSeq(lpData[1], 1, cbData))]
    IN  [sess EXCEPT ![h].pending = Append(@, o)]

Without(f, h) == [x \in DOMAIN f \ {h} |-> f[x]]
With(f, h, v) == [x \in DOMAIN f \cup {h} |-> IF x = h THEN v ELSE f[x]]

Ev(call, path, h, kind, name, lang, data, ok) ==
    [call |-> call, path |-> path, h |-> h, kind |-> kind, name |-> name,
     lang |-> lang, data |-> data, ok |-> ok]

----------------------------------------------------------------------------
(* Values computed by the Python code *)

\* Faulty variant of size_of: one byte short.
size_of_short(data) ==
    IF data = None \/ data = Some(<< >>) THEN 0 ELSE Len(data[1]) - 1

\* _updateResource: size = 0 if data is None else len(data)
size_of(data) == IF data = None THEN 0 ELSE Len(data[1])

\* ctypes.string_at(ptr, size): exactly size bytes starting at ptr; no byte
\* is read when size is 0, so a NULL ptr then yields b"".
string_at(ptr, size) ==
    IF ptr = None THEN << >> ELSE SubSeq(ptr[1].data, 1, size)

\* ctypes.string_at(NULL, size) with size > 0 reads address 0: the access
\* violation is turned into an OSError by ctypes.
string_at_raises(ptr, size) == ptr = None /\ size > 0

\* The value a call of _updateResource evaluates to when it does not raise:
\* the function has no return statement.
updateResource_value == None

\* Python truth of a value returned by a helper.
Truthy(v) == v /= None

\* Faulty variant of updateResource_lang: the lang argument is handed on.
updateResource_lang_passed(lang) == lang

\* The language _updateResource hands to UpdateResourceA, whatever its lang
\* argument.
updateResource_lang(lang) == 0

----------------------------------------------------------------------------
(* State *)

NoFrame ==
    [fn |-> "", source |-> "", target |-> "", resource_kind |-> 0,
     with_data |-> FALSE, res_names |-> << >>, data |-> None, res_name |-> 0,
     hmodule |-> 0, update_handle |-> 0, result |-> << >>, todo |-> << >>,
     i |-> 0, lang |-> 0, raised_at |-> ""]

Keys == Kinds \X Names \X Langs

\* Resource directories of at most n entries.
Directories(n) ==
    UNION {{{[kind |-> k[1], name |-> k[2], lang |-> k[3], data |-> d[k]] :
               k \in KS} : d \in [KS -> Data]} :
           KS \in {X \in SUBSET Keys : Cardinality(X) <= n}}

Snapshot ==
    [files |-> files, sessions |-> DOMAIN sessions, modules |-> DOMAIN modules]

OfKinds(dir, K) == {e \in dir : e.kind \in K}

InitCommon ==
    /\ modules = << >>
    /\ sessions = << >>
    /\ nextHandle = 1
    /\ pc = "idle"
    /\ frame = NoFrame
    /\ oslog = << >>
    /\ outcome = "none"
    /\ before = Snapshot
    /\ history = << >>
    /\ wintypes \in BOOLEAN

\* One call on binaries of up to MaxRes resources; "b" is empty, or "a"
\* stripped of its manifests, or a copy of "a".
Init ==
    /\ \E A \in Directories(MaxRes), K \in {{}, {RT_ICON}, Kinds} :
          files = [p \in ValidPaths |-> IF p = "a" THEN A ELSE OfKinds(A, K)]
    /\ callsLeft = 1
    /\ InitCommon

\* Up to MaxCalls calls in a row, the first on a binary "a" of at most one
\* resource and an empty binary "b".
InitSeq ==
    /\ \E A \in Directories(1) :
          files = [p \in ValidPaths |-> IF p = "a" THEN A ELSE {}]
    /\ callsLeft = MaxCalls
    /\ InitCommon

Idle == pc \in {"idle", "done"} /\ callsLeft > 0

Begin(f, at) ==
    /\ frame' = f
    /\ pc' = at
    /\ oslog' = << >>
    /\ outcome' = "none"
    /\ before' = Snapshot
    /\ history' = IF pc = "done"
                  THEN Append(history,
                         [fn |-> frame.fn, outcome |-> outcome,
                          raised_at |-> frame.raised_at,
                          closed |-> {oslog[i].h : i \in
                             {j \in 1..Len(oslog) :
                                oslog[j].call = "EndUpdateResourceA"}}])
                  ELSE history
    /\ callsLeft' = callsLeft - 1
    /\ UNCHANGED << files, modules, sessions, nextHandle, wintypes >>

Raise(f, at) ==
    /\ frame' = [f EXCEPT !.raised_at = at]
    /\ pc' = "done"
    /\ outcome' = "raised"

Return(f) ==
    /\ frame' = f
    /\ pc' = "done"
    /\ outcome' = "returned"

----------------------------------------------------------------------------
(* The caller invokes one of the module's functions *)

Call_getResourcesFromDLL ==
    /\ Idle
    /\ \E filename \in Paths, resource_kind \in Kinds, with_data \in BOOLEAN :
          Begin([NoFrame EXCEPT !.fn = "getResourcesFromDLL",
                                !.source = filename,
                                !.resource_kind = resource_kind,
                                !.with_data = with_data], "load")

Call_deleteWindowsResources ==
    /\ Idle
    /\ \E filename \in Paths, resource_kind \in Kinds,
          n \in 0..MaxBatch :
          \E res_names \in [1..n -> Names] :
              Begin([NoFrame EXCEPT !.fn = "deleteWindowsResources",
                                    !.target = filename,
                                    !.resource_kind = resource_kind,
                                    !.res_names = res_names,
                                    !.i = 1], "open")

Call_copyResourcesFromFileToFile ==
    /\ Idle
    /\ \E source_filename \in Paths, target_filename \in Paths,
          resource_kind \in Kinds :
          Begin([NoFrame EXCEPT !.fn = "copyResourcesFromFileToFile",
                                !.source = source_filename,
                                !.target = target_filename,
                                !.resource_kind = resource_kind,
                                !.with_data = TRUE], "load")

\* The caller uses the session functions directly: _openFileWindowsResources,
\* then _updateResource calls, then _closeFileWindowsResources.
Call__openFileWindowsResources ==
    /\ Idle
    /\ \E filename \in Paths :
          Begin([NoFrame EXCEPT !.fn = "_openFileWindowsResources",
                                !.target = filename], "open")

Call_addResourceToFile ==
    /\ Idle
    /\ \E target_filename \in Paths, data \in Data, resource_kind \in Kinds,
          res_name \in Names :
          Begin([NoFrame EXCEPT !.fn = "addResourceToFile",
                                !.target = target_filename,
                                !.data = Some(data),
                                !.resource_kind = resource_kind,
                                !.res_name = res_name], "open")

----------------------------------------------------------------------------
(* getResourcesFromDLL *)

\* Faulty variant of getResourcesFromDLL_load: "if hmodule == 0: raise" is
\* left out, and the enumeration of the null module reports nothing.
getResourcesFromDLL_load_unchecked ==
    /\ pc = "load"
    /\ \E ok \in BOOLEAN :
          /\ ok => frame.source \in ValidPaths
          /\ oslog' = Append(oslog,
                 Ev("LoadLibraryEx", frame.source, IF ok THEN nextHandle ELSE 0,
                    0, 0, 0, None, ok))
          /\ modules' = IF ok THEN With(modules, nextHandle, frame.source)
                              ELSE modules
          /\ nextHandle' = IF ok THEN nextHandle + 1 ELSE nextHandle
          /\ frame' = [frame EXCEPT
                !.hmodule = IF ok THEN nextHandle ELSE 0,
                !.result = << >>,
                !.todo = IF ok THEN EnumResourceNames(files[frame.source],
                                                      frame.resource_kind)
                               ELSE << >>]
          /\ pc' = "enum"
          /\ UNCHANGED outcome
    /\ wintypes' = TRUE
    /\ UNCHANGED << files, sessions, before, history, callsLeft >>

\* import ctypes.wintypes
\* hmodule = LoadLibraryEx(filename, 0, flags); if hmodule == 0: raise
getResourcesFromDLL_load ==
    /\ pc = "load"
    /\ \E ok \in BOOLEAN :
          /\ ok => frame.source \in ValidPaths
          /\ oslog' = Append(oslog,
                 Ev("LoadLibraryEx", frame.source, IF ok THEN nextHandle ELSE 0,
                    0, 0, 0, None, ok))
          /\ IF ok
             THEN /\ modules' = With(modules, nextHandle, frame.source)
                  /\ nextHandle' = nextHandle + 1
                  /\ frame' = [frame EXCEPT
                        !.hmodule = nextHandle,
                        !.result = << >>,
                        !.todo = EnumResourceNames(files[frame.source],
                                                   frame.resource_kind)]
                  /\ pc' = "enum"
                  /\ UNCHANGED outcome
             ELSE /\ Raise([frame EXCEPT !.hmodule = 0], "load")
                  /\ UNCHANGED << modules, nextHandle >>
    /\ wintypes' = TRUE
    /\ UNCHANGED << files, sessions, before, history, callsLeft >>

\* What the callback answers to EnumResourceNames: "return True".
callback_value == TRUE

\* Faulty variant of callback_record: identifier and kind change places.
callback_record_swapped(lpType, lpName, bytes) == << lpName, lpType, bytes >>

\* The record the callback appends for a resource it read the data of.
callback_record(lpType, lpName, bytes) == << lpType, lpName, bytes >>

\* Faulty variant of callback_calls: FreeResource is not in a finally block.
callback_calls_no_finally(hModule, lpType, lpName, hResource, hData, raised) ==
    << Ev("FindResourceA", "", hModule, lpType, lpName,
          IF hResource /= None THEN hResource[1].lang ELSE 0, None,
          hResource /= None),
       Ev("LoadResource", "", hModule, lpType, lpName, 0, None,
          hData /= None) >>
    \o IF raised THEN << >>
       ELSE << Ev("FreeResource", "", hModule, lpType, lpName, 0, None,
                  hData /= None) >>

\* The kernel32 calls of one run of the callback that reads the data:
\* FindResourceA, (SizeofResource,) LoadResource, (LockResource,) and, in the
\* finally block, FreeResource, whether string_at raised or not.
callback_calls(hModule, lpType, lpName, hResource, hData, raised) ==
    << Ev("FindResourceA", "", hModule, lpType, lpName,
          IF hResource /= None THEN hResource[1].lang ELSE 0, None,
          hResource /= None),
       Ev("LoadResource", "", hModule, lpType, lpName, 0, None,
          hData /= None),
       Ev("FreeResource", "", hModule, lpType, lpName, 0, None,
          hData /= None) >>

\* def callback(hModule, lpType, lpName, _lParam), called by
\* EnumResourceNames for the next name of the directory.  The results of
\* FindResourceA and LoadResource are not tested.  When string_at raises,
\* nothing is appended; ctypes reports the exception, does not hand it to
\* the caller of EnumResourceNames, and leaves the callback's answer unset:
\* the enumeration goes on or stops (answer).
callback ==
    /\ pc = "enum"
    /\ frame.todo /= << >>
    /\ LET hModule == frame.hmodule
           dir == files[modules[hModule]]
           lpType == frame.resource_kind
           lpName == Head(frame.todo)
       IN  IF frame.with_data
           THEN \E findOk \in BOOLEAN, loadOk \in BOOLEAN,
                   e \in FindResourceA(dir, lpName, lpType),
                   answer \in BOOLEAN :
                   LET hResource == IF findOk THEN Some(e) ELSE None
                       size == SizeofResource(hResource)
                       hData == IF hResource /= None /\ loadOk
                                THEN hResource ELSE None
                       ptr == LockResource(hData)
                       raised == string_at_raises(ptr, size)
                       continue == IF raised THEN answer ELSE callback_value
                   IN  /\ findOk \/ ~loadOk
                       /\ raised \/ answer
                       /\ frame' = [frame EXCEPT
                             !.result =
                                IF raised THEN @
                                ELSE Append(@, callback_record(lpType, lpName,
                                                   string_at(ptr, size))),
                             !.todo = IF continue THEN Tail(@) ELSE << >>]
                       /\ oslog' = oslog \o callback_calls(hModule, lpType,
                                        lpName, hResource, hData, raised)
           ELSE /\ frame' = [frame EXCEPT
                     !.result = Append(@, lpName),
                     !.todo = IF callback_value THEN Tail(@) ELSE << >>]
                /\ UNCHANGED oslog
    /\ UNCHANGED << files, modules, sessions, nextHandle, pc, outcome, before,
                    history, wintypes, callsLeft >>

\* What EnumResourceNamesA answers once the enumeration is over: FALSE
\* (ERROR_RESOURCE_TYPE_NOT_FOUND) when the module has no resource of the
\* kind.  getResourcesFromDLL does not look at it.
EnumResourceNamesA_value(dir, kind) == OfKinds(dir, {kind}) /= {}

\* Faulty variant of res_data_true: the test is left out.
res_data_true_always(res_data) == TRUE

\* Python truth of res_data in "if res_data:".
res_data_true(res_data) == res_data /= << >>

\* Faulty variant of getResourcesFromDLL_return: an empty result is returned
\* before FreeLibrary is called.
getResourcesFromDLL_return_early ==
    /\ pc = "enum"
    /\ frame.todo = << >>
    /\ IF frame.result = << >>
       THEN UNCHANGED << modules, oslog >>
       ELSE /\ modules' = Without(modules, frame.hmodule)
            /\ oslog' = oslog \o
                 << Ev("EnumResourceNamesA", "", frame.hmodule,
                       frame.resource_kind, 0, 0, None, TRUE),
                    Ev("FreeLibrary", "", frame.hmodule, 0, 0, 0, None, TRUE) >>
    /\ IF frame.fn = "copyResourcesFromFileToFile" /\ frame.result /= << >>
       THEN /\ pc' = "open"
            /\ frame' = [frame EXCEPT !.i = 1]
            /\ UNCHANGED outcome
       ELSE Return(frame)
    /\ UNCHANGED << files, sessions, nextHandle, before, history, wintypes, callsLeft >>

\* Faulty variant of getResourcesFromDLL_return: the answer of
\* EnumResourceNames is checked, and FALSE raises ctypes.WinError().
getResourcesFromDLL_return_checked ==
    /\ pc = "enum"
    /\ frame.todo = << >>
    /\ LET found == EnumResourceNamesA_value(files[modules[frame.hmodule]],
                                             frame.resource_kind)
           enumerated == Ev("EnumResourceNamesA", "", frame.hmodule,
                            frame.resource_kind, 0, 0, None, found)
       IN  IF ~found
           THEN /\ oslog' = Append(oslog, enumerated)
                /\ Raise(frame, "enum")
                /\ UNCHANGED modules
           ELSE /\ modules' = Without(modules, frame.hmodule)
                /\ oslog' = oslog \o
                     << enumerated,
                        Ev("FreeLibrary", "", frame.hmodule, 0, 0, 0, None,
                           TRUE) >>
                /\ IF frame.fn = "copyResourcesFromFileToFile"
                   THEN /\ pc' = "open"
                        /\ frame' = [frame EXCEPT !.i = 1]
                        /\ UNCHANGED outcome
                   ELSE Return(frame)
    /\ UNCHANGED << files, sessions, nextHandle, before, history, wintypes, callsLeft >>

\* EnumResourceNames(hmodule, resource_kind, callback, None) has called the
\* callback for every name and returns: FreeLibrary(hmodule); return result.  In
\* copyResourcesFromFileToFile the result is res_data, tested by
\* "if res_data:".
getResourcesFromDLL_return ==
    /\ pc = "enum"
    /\ frame.todo = << >>
    /\ modules' = Without(modules, frame.hmodule)
    /\ oslog' = oslog \o
         << Ev("EnumResourceNamesA", "", frame.hmodule, frame.resource_kind,
               0, 0, None,
               EnumResourceNamesA_value(files[modules[frame.hmodule]],
                                        frame.resource_kind)),
            Ev("FreeLibrary", "", frame.hmodule, 0, 0, 0, None, TRUE) >>
    /\ IF frame.fn = "copyResourcesFromFileToFile"
          /\ res_data_true(frame.result)
       THEN /\ pc' = "open"
            /\ frame' = [frame EXCEPT !.i = 1]
            /\ UNCHANGED outcome
       ELSE Return(frame)
    /\ UNCHANGED << files, sessions, nextHandle, before, history, wintypes, callsLeft >>

----------------------------------------------------------------------------
(* Update sessions *)

\* import ctypes
\* BeginUpdateResource.restype = ctypes.wintypes.HANDLE
\* update_handle = BeginUpdateResource(filename, False); raise if null
\* The function imports the package only: the attribute ctypes.wintypes is
\* there when the submodule has been imported before, by getResourcesFromDLL
\* or by the rest of the program, and reading it raises AttributeError
\* otherwise.
_openFileWindowsResources ==
    /\ pc = "open"
    /\ IF ~wintypes
       THEN /\ Raise(frame, "import")
            /\ UNCHANGED << sessions, nextHandle, oslog >>
       ELSE \E ok \in BOOLEAN :
          /\ ok => frame.target \in ValidPaths
          /\ oslog' = Append(oslog,
                 Ev("BeginUpdateResource", frame.target,
                    IF ok THEN nextHandle ELSE 0, 0, 0, 0, None, ok))
          /\ IF ok
             THEN /\ sessions' = With(sessions, nextHandle,
                        [path |-> frame.target, pending |-> << >>])
                  /\ nextHandle' = nextHandle + 1
                  /\ frame' = [frame EXCEPT !.update_handle = nextHandle]
                  /\ pc' = "update"
                  /\ UNCHANGED outcome
             ELSE /\ Raise(frame, "open")
                  /\ UNCHANGED << sessions, nextHandle >>
    /\ UNCHANGED << files, modules, before, history, wintypes, callsLeft >>

\* Faulty variant of _updateResource: the operation is written to the file
\* when it is staged.
_updateResource_eager(update_handle, resource_kind, res_name, lang, data, ok) ==
    /\ sessions' =
         IF ok
         THEN UpdateResourceA(sessions, update_handle, resource_kind, res_name,
                              updateResource_lang(lang), data, size_of(data))
         ELSE sessions
    /\ files' =
         IF ok
         THEN [files EXCEPT ![sessions[update_handle].path] =
                  ApplyAll(@, sessions'[update_handle].pending)]
         ELSE files
    /\ oslog' = Append(oslog,
           Ev("UpdateResourceA", "", update_handle, resource_kind, res_name,
              updateResource_lang(lang), data, ok))

\* _updateResource(update_handle, resource_kind, res_name, lang, data): the
\* OS call it makes; ok is UpdateResourceA's answer, and it raises on FALSE.
_updateResource(update_handle, resource_kind, res_name, lang, data, ok) ==
    /\ sessions' =
         IF ok
         THEN UpdateResourceA(sessions, update_handle, resource_kind, res_name,
                              updateResource_lang(lang), data, size_of(data))
         ELSE sessions
    /\ files' = files
    /\ oslog' = Append(oslog,
           Ev("UpdateResourceA", "", update_handle, resource_kind, res_name,
              updateResource_lang(lang), data, ok))

\* for res_name in res_names:
\*     ret = _updateResource(update_handle, resource_kind, res_name, 0, None)
\*     if not ret: raise ctypes.WinError()
deleteWindowsResources_loop ==
    /\ pc = "update"
    /\ frame.fn = "deleteWindowsResources"
    /\ frame.i <= Len(frame.res_names)
    /\ \E ok \in BOOLEAN :
          /\ _updateResource(frame.update_handle, frame.resource_kind,
                             frame.res_names[frame.i], 0, None, ok)
          /\ IF ~ok THEN Raise(frame, "update")
             ELSE LET ret == updateResource_value
                  IN  IF Truthy(ret)
                      THEN /\ frame' = [frame EXCEPT !.i = @ + 1]
                           /\ UNCHANGED << pc, outcome >>
                      ELSE Raise(frame, "ret")
    /\ UNCHANGED << modules, nextHandle, before, history, wintypes, callsLeft >>

\* Faulty variant of copyResourcesFromFileToFile_loop: a stage that fails is
\* skipped and the loop goes on.
copyResourcesFromFileToFile_loop_lenient ==
    /\ pc = "update"
    /\ frame.fn = "copyResourcesFromFileToFile"
    /\ frame.i <= Len(frame.result)
    /\ \E ok \in BOOLEAN :
          /\ _updateResource(frame.update_handle, frame.resource_kind,
                             frame.result[frame.i][2], 0,
                             Some(frame.result[frame.i][3]), ok)
          /\ frame' = [frame EXCEPT !.i = @ + 1]
          /\ UNCHANGED << pc, outcome >>
    /\ UNCHANGED << modules, nextHandle, before, history, wintypes, callsLeft >>

\* Faulty variant of copyResourcesFromFileToFile_loop: res_data is walked
\* from its last record to its first.
copyResourcesFromFileToFile_loop_reversed ==
    /\ pc = "update"
    /\ frame.fn = "copyResourcesFromFileToFile"
    /\ frame.i <= Len(frame.result)
    /\ LET k == Len(frame.result) + 1 - frame.i
           kind == frame.result[k][1]
           res_name == frame.result[k][2]
           data == frame.result[k][3]
       IN  IF kind /= frame.resource_kind
           THEN /\ Raise(frame, "assert")
                /\ UNCHANGED << files, sessions, oslog >>
           ELSE \E ok \in BOOLEAN :
                   /\ _updateResource(frame.update_handle, frame.resource_kind,
                                      res_name, 0, Some(data), ok)
                   /\ IF ok
                      THEN /\ frame' = [frame EXCEPT !.i = @ + 1]
                           /\ UNCHANGED << pc, outcome >>
                      ELSE Raise(frame, "update")
    /\ UNCHANGED << modules, nextHandle, before, history, wintypes, callsLeft >>

\* for kind, res_name, data in res_data:
\*     assert kind == resource_kind
\*     _updateResource(update_handle, resource_kind, res_name, 0, data)
copyResourcesFromFileToFile_loop ==
    /\ pc = "update"
    /\ frame.fn = "copyResourcesFromFileToFile"
    /\ frame.i <= Len(frame.result)
    /\ LET kind == frame.result[frame.i][1]
           res_name == frame.result[frame.i][2]
           data == frame.result[frame.i][3]
       IN  IF kind /= frame.resource_kind
           THEN /\ Raise(frame, "assert")
                /\ UNCHANGED << files, sessions, oslog >>
           ELSE \E ok \in BOOLEAN :
                   /\ _updateResource(frame.update_handle, frame.resource_kind,
                                      res_name, 0, Some(data), ok)
                   /\ IF ok
                      THEN /\ frame' = [frame EXCEPT !.i = @ + 1]
                           /\ UNCHANGED << pc, outcome >>
                      ELSE Raise(frame, "update")
    /\ UNCHANGED << modules, nextHandle, before, history, wintypes, callsLeft >>

\* _updateResource(update_handle, resource_kind, res_name, 0, data)
addResourceToFile_update ==
    /\ pc = "update"
    /\ frame.fn = "addResourceToFile"
    /\ frame.i = 0
    /\ \E ok \in BOOLEAN :
          /\ _updateResource(frame.update_handle, frame.resource_kind,
                             frame.res_name, 0, frame.data, ok)
          /\ IF ok
             THEN /\ frame' = [frame EXCEPT !.i = 1]
                  /\ UNCHANGED << pc, outcome >>
             ELSE Raise(frame, "update")
    /\ UNCHANGED << modules, nextHandle, before, history, wintypes, callsLeft >>

\* The caller drives a session itself: one more _updateResource call on the
\* handle _openFileWindowsResources gave it, with arguments of its choice.
Call__updateResource ==
    /\ pc = "update"
    /\ frame.fn = "_openFileWindowsResources"
    /\ frame.i < MaxBatch
    /\ \E resource_kind \in Kinds, res_name \in Names, lang \in Langs,
          data \in {None} \cup {Some(d) : d \in Data}, ok \in BOOLEAN :
          /\ _updateResource(frame.update_handle, resource_kind, res_name,
                             lang, data, ok)
          /\ IF ok
             THEN /\ frame' = [frame EXCEPT !.i = @ + 1, !.lang = lang]
                  /\ UNCHANGED << pc, outcome >>
             ELSE Raise([frame EXCEPT !.lang = lang], "update")
    /\ UNCHANGED << modules, nextHandle, before, history, wintypes, callsLeft >>

\* The staging part of the function in progress is over.
Staged ==
    CASE frame.fn = "deleteWindowsResources" -> frame.i > Len(frame.res_names)
      [] frame.fn = "copyResourcesFromFileToFile" -> frame.i > Len(frame.result)
      [] frame.fn = "addResourceToFile" -> frame.i = 1
      [] frame.fn = "_openFileWindowsResources" -> TRUE
      [] OTHER -> FALSE

\* Faulty variant of _closeFileWindowsResources: a commit that fails is
\* tried again on the same handle.
_closeFileWindowsResources_retry ==
    /\ pc = "update"
    /\ Staged
    /\ LET h == frame.update_handle
           path == sessions[h].path
           written == [files EXCEPT
                         ![path] = ApplyAll(@, sessions[h].pending)]
       IN  \E ok \in BOOLEAN :
              /\ files' \in IF ok THEN {written} ELSE {files, written}
              /\ sessions' = IF ok THEN Without(sessions, h) ELSE sessions
              /\ oslog' = Append(oslog,
                     Ev("EndUpdateResourceA", "", h, 0, 0, 0, None, ok))
              /\ IF ok THEN Return(frame)
                       ELSE IF Len(oslog) < 2 * MaxBatch
                            THEN UNCHANGED << pc, frame, outcome >>
                            ELSE Raise(frame, "close")
    /\ UNCHANGED << modules, nextHandle, before, history, wintypes, callsLeft >>

\* ret = EndUpdateResourceA(update_handle, False); raise if not ret.  The OS
\* frees the handle either way; a write that failed leaves the file as it
\* was or as the write got it.
_closeFileWindowsResources ==
    /\ pc = "update"
    /\ Staged
    /\ LET h == frame.update_handle
           path == sessions[h].path
           written == [files EXCEPT
                         ![path] = ApplyAll(@, sessions[h].pending)]
       IN  \E ok \in BOOLEAN :
              /\ files' \in IF ok THEN {written} ELSE {files, written}
              /\ sessions' = Without(sessions, h)
              /\ oslog' = Append(oslog,
                     Ev("EndUpdateResourceA", "", h, 0, 0, 0, None, ok))
              /\ IF ok THEN Return(frame) ELSE Raise(frame, "close")
    /\ UNCHANGED << modules, nextHandle, before, history, wintypes, callsLeft >>

----------------------------------------------------------------------------

\* The public functions and the steps they are made of.
NextSeq ==
    \/ Call_getResourcesFromDLL
    \/ Call_deleteWindowsResources
    \/ Call_copyResourcesFromFileToFile
    \/ Call_addResourceToFile
    \/ getResourcesFromDLL_load
    \/ callback
    \/ getResourcesFromDLL_return
    \/ _openFileWindowsResources
    \/ deleteWindowsResources_loop
    \/ copyResourcesFromFileToFile_loop
    \/ addResourceToFile_update
    \/ _closeFileWindowsResources

\* The same, and the session functions called directly.
Next ==
    \/ NextSeq
    \/ Call__openFileWindowsResources
    \/ Call__updateResource

Spec == Init /\ [][Next]_vars

SpecSeq == InitSeq /\ [][NextSeq]_vars

----------------------------------------------------------------------------
(* Vocabulary of the properties *)

Done == pc = "done"

\* Positions of the calls of one kernel32 function in oslog.
CallsOf(c) == {i \in 1..Len(oslog) : oslog[i].call = c}

UpdateCalls ==
    CallsOf("BeginUpdateResource") \cup CallsOf("UpdateResourceA")
        \cup CallsOf("EndUpdateResourceA")

AllOk == \A i \in 1..Len(oslog) : oslog[i].ok

\* What reading (kind, name) out of a directory yields when the OS calls of
\* the read succeed: FindResource, SizeofResource, LoadResource,
\* LockResource, string_at.
Extract(dir, kind, name) ==
    {string_at(LockResource(Some(e)), SizeofResource(Some(e))) :
        e \in FindResourceA(dir, name, kind)}

HasKind(dir, kind) == OfKinds(dir, {kind}) /= {}

----------------------------------------------------------------------------
(* C1: when every OS call succeeds, deleteWindowsResources begins one      *)
(* session, stages a deletion for every identifier of the list in order,   *)
(* commits and returns normally.  Stated for identifiers the file holds    *)
(* under the neutral language, in a process that has imported              *)
(* ctypes.wintypes.  The code raises after the first successful stage:     *)
(* _updateResource returns None and the loop tests "if not ret".           *)
C1_DeleteStagesAllAndCommits ==
    (/\ Done
     /\ frame.fn = "deleteWindowsResources"
     /\ wintypes
     /\ AllOk
     /\ \A i \in 1..Len(frame.res_names) :
           \E e \in before.files[frame.target] :
              KeyOf(e) = << frame.resource_kind, frame.res_names[i], 0 >>)
    => /\ outcome = "returned"
       /\ Len(oslog) = Len(frame.res_names) + 2
       /\ oslog[1].call = "BeginUpdateResource"
       /\ \A i \in 1..Len(frame.res_names) :
             oslog[i + 1] = Ev("UpdateResourceA", "", frame.update_handle,
                               frame.resource_kind, frame.res_names[i], 0,
                               None, TRUE)
       /\ oslog[Len(oslog)].call = "EndUpdateResourceA"

----------------------------------------------------------------------------
(* C2: copy fidelity.  If the target held no resource of the kind, then    *)
(* after copyResourcesFromFileToFile returns normally the target lists the *)
(* same names of that kind as the source and each reads back the bytes the *)
(* source holds for it.  The code stages whatever the callback recorded,   *)
(* also when FindResource or LoadResource failed (see C11).                *)
C2_CopyFidelity ==
    (/\ Done
     /\ frame.fn = "copyResourcesFromFileToFile"
     /\ outcome = "returned"
     /\ frame.target \in ValidPaths
     /\ ~HasKind(before.files[frame.target], frame.resource_kind))
    => LET K == frame.resource_kind
           src == before.files[frame.source]
           tgt == files[frame.target]
       IN  /\ EnumResourceNames(tgt, K) = EnumResourceNames(src, K)
           /\ \A n \in Names :
                 /\ Extract(tgt, K, n) \subseteq Extract(src, K, n)
                 /\ Cardinality(Extract(tgt, K, n)) <= 1

\* The same with every OS call of the copy succeeding: then it holds.
C2_CopyFidelityWhenReadsSucceed == AllOk => C2_CopyFidelity

C2_Witness ==
    /\ Done
    /\ frame.fn = "copyResourcesFromFileToFile"
    /\ outcome = "returned"
    /\ AllOk
    /\ frame.target \in ValidPaths
    /\ ~HasKind(before.files[frame.target], frame.resource_kind)
    /\ Len(EnumResourceNames(files[frame.target], frame.resource_kind)) = 2

----------------------------------------------------------------------------
(* C3: if the source has no resource of the requested kind,                *)
(* copyResourcesFromFileToFile makes no begin, stage or commit call, opens *)
(* no update handle and leaves every file as it was.                       *)
C3_EmptySourceNoSession ==
    (/\ frame.fn = "copyResourcesFromFileToFile"
     /\ frame.source \in ValidPaths
     /\ ~HasKind(before.files[frame.source], frame.resource_kind))
    => /\ UpdateCalls = {}
       /\ DOMAIN sessions = before.sessions
       /\ files = before.files
       /\ pc /= "update"

C3_Witness ==
    /\ Done
    /\ outcome = "returned"
    /\ frame.fn = "copyResourcesFromFileToFile"
    /\ frame.source /= frame.target
    /\ frame.target \in ValidPaths
    /\ ~HasKind(before.files[frame.source], frame.resource_kind)
    /\ files[frame.target] /= {}
    /\ oslog[Len(oslog)].call = "FreeLibrary"

----------------------------------------------------------------------------
(* C4: round trip.  After addResourceToFile(path, data, kind, id) returns  *)
(* normally, the file lists id under kind and reading (kind, id) out of it *)
(* yields exactly data: the same bytes, the same length.                   *)
C4_AddThenExtract ==
    (Done /\ frame.fn = "addResourceToFile" /\ outcome = "returned")
    => LET dir == files[frame.target]
           got == Extract(dir, frame.resource_kind, frame.res_name)
       IN  /\ got = {frame.data[1]}
           /\ \A x \in got : Len(x) = Len(frame.data[1])
           /\ \E i \in 1..Len(EnumResourceNames(dir, frame.resource_kind)) :
                 EnumResourceNames(dir, frame.resource_kind)[i] = frame.res_name

\* A payload of full length that starts with a NUL byte replaces other bytes,
\* in a file that holds the name under another language too.
C4_Witness ==
    /\ Done
    /\ frame.fn = "addResourceToFile"
    /\ outcome = "returned"
    /\ Len(frame.data[1]) = MaxLen
    /\ frame.data[1][1] = 0
    /\ \E e1 \in before.files[frame.target], e2 \in before.files[frame.target] :
          /\ KeyOf(e1) = << frame.resource_kind, frame.res_name, 0 >>
          /\ e1.data /= frame.data[1]
          /\ e2.kind = frame.resource_kind
          /\ e2.name = frame.res_name
          /\ e2.lang /= 0

----------------------------------------------------------------------------
(* C5: deletion is observable.  A session that staged a deletion (data =   *)
(* None) of (kind, name), staged nothing for that (kind, name) afterwards  *)
(* and committed.                                                          *)

\* The staged operations of the session the caller drove and committed.
Committed ==
    /\ Done
    /\ frame.fn = "_openFileWindowsResources"
    /\ outcome = "returned"

\* Position i of oslog is a staged deletion that no later stage of the session
\* touches again.
FinalDeletion(i) ==
    /\ i \in CallsOf("UpdateResourceA")
    /\ oslog[i].data = None
    /\ \A j \in CallsOf("UpdateResourceA") :
          j > i => << oslog[j].kind, oslog[j].name >>
                     /= << oslog[i].kind, oslog[i].name >>

StagedKeys ==
    {<< oslog[j].kind, oslog[j].name, oslog[j].lang >> :
        j \in CallsOf("UpdateResourceA")}

StagedNames ==
    {<< oslog[j].kind, oslog[j].name >> : j \in CallsOf("UpdateResourceA")}

IsListed(dir, kind, name) == \E e \in dir : e.kind = kind /\ e.name = name

\* C5 as claimed: the name is no longer listed, and the resources the session
\* staged nothing for are still there.  Stated for a name the file held under
\* the neutral language.
C5_DeletionObservable ==
    Committed
    => \A i \in 1..Len(oslog) :
          (/\ FinalDeletion(i)
           /\ \E e \in before.files[frame.target] :
                 KeyOf(e) = << oslog[i].kind, oslog[i].name, 0 >>)
          => /\ ~IsListed(files[frame.target], oslog[i].kind, oslog[i].name)
             /\ \A e \in before.files[frame.target] :
                   << e.kind, e.name >> \notin StagedNames
                      => e \in files[frame.target]

\* C5 as amended: the neutral-language entry of the name is gone, the name is
\* still listed exactly when the file holds it under another language, and
\* every entry whose (kind, name, language) the session staged nothing for is
\* still there.
C5_NeutralEntryDeleted ==
    Committed
    => \A i \in 1..Len(oslog) :
          FinalDeletion(i)
          => /\ \A e \in files[frame.target] :
                   KeyOf(e) /= << oslog[i].kind, oslog[i].name, 0 >>
             /\ IsListed(files[frame.target], oslog[i].kind, oslog[i].name)
                  <=> \E e \in before.files[frame.target] :
                         /\ e.kind = oslog[i].kind
                         /\ e.name = oslog[i].name
                         /\ e.lang /= 0
             /\ \A e \in before.files[frame.target] :
                   KeyOf(e) \notin StagedKeys => e \in files[frame.target]

\* A committed deletion of a name held under the neutral and another language,
\* staged with another language as the lang argument.
C5_Witness ==
    /\ Committed
    /\ \E i \in 1..Len(oslog) :
          /\ FinalDeletion(i)
          /\ \E e \in before.files[frame.target] :
                KeyOf(e) = << oslog[i].kind, oslog[i].name, 0 >>
          /\ IsListed(files[frame.target], oslog[i].kind, oslog[i].name)
          /\ Cardinality(files[frame.target]) = 1

----------------------------------------------------------------------------
(* C6: staging has no effect on the file before commit.  While the update  *)
(* session of the call in progress is open, every file holds what it held  *)
(* when the call began, however many operations are staged.                *)
C6_StagingInvisible ==
    (pc = "update" /\ frame.update_handle \in DOMAIN sessions)
    => files = before.files

\* MaxBatch operations are staged and would change the file.
C6_Witness ==
    /\ pc = "update"
    /\ frame.update_handle \in DOMAIN sessions
    /\ Len(sessions[frame.update_handle].pending) = MaxBatch
    /\ ApplyAll(files[frame.target], sessions[frame.update_handle].pending)
         /= files[frame.target]

----------------------------------------------------------------------------
(* C7: whenever addResourceToFile, copyResourcesFromFileToFile or          *)
(* deleteWindowsResources terminates, by return or by raise, the update    *)
(* handle it opened has been closed: no handle is open that was not open   *)
(* when the call began.  The code calls _closeFileWindowsResources on the  *)
(* normal path only.                                                       *)
Compositions ==
    {"addResourceToFile", "copyResourcesFromFileToFile",
     "deleteWindowsResources"}

C7_UpdateHandleReleased ==
    (Done /\ frame.fn \in Compositions) => DOMAIN sessions = before.sessions

----------------------------------------------------------------------------
(* C8: no partial commit.  In deleteWindowsResources and                   *)
(* copyResourcesFromFileToFile a stage call that fails is the last OS call *)
(* of the operation: the error is raised at once, the entries before it    *)
(* were staged in batch order and none after it, commit is not called and  *)
(* every file holds what it held when the operation began.                 *)
Batch ==
    IF frame.fn = "deleteWindowsResources" THEN frame.res_names
    ELSE [j \in 1..Len(frame.result) |-> frame.result[j][2]]

----------------------------------------------------------------------------
(* C9: a failed open leaves nothing open.  When LoadLibraryEx returns 0 or *)
(* BeginUpdateResource returns null the function raises, the failed call   *)
(* is the last OS call of the operation, no handle is held that was not    *)
(* held before, no file has changed; and the retry is not hindered: an     *)
(* open that the OS grants on the next call yields the handle, and         *)
(* getResourcesFromDLL then returns normally.                              *)
Last(q) == q[Len(q)]

PreviousFailedToOpen ==
    /\ history /= << >>
    /\ Last(history).raised_at \in {"load", "open"}

C9_FailedOpenLeavesNothing ==
    /\ \A i \in CallsOf("LoadLibraryEx") \cup CallsOf("BeginUpdateResource") :
          ~oslog[i].ok
          => /\ i = Len(oslog)
             /\ Done
             /\ outcome = "raised"
             /\ frame.raised_at
                  = (IF oslog[i].call = "LoadLibraryEx" THEN "load" ELSE "open")
             /\ IF oslog[i].call = "LoadLibraryEx"
                THEN frame.hmodule = 0 ELSE frame.update_handle = 0
             /\ CallsOf("UpdateResourceA") = {}
             /\ CallsOf("EndUpdateResourceA") = {}
             /\ DOMAIN modules = before.modules
             /\ DOMAIN sessions = before.sessions
             /\ files = before.files
    /\ PreviousFailedToOpen
       => /\ \A i \in CallsOf("LoadLibraryEx") :
                oslog[i].ok => /\ frame.hmodule = oslog[i].h
                               /\ oslog[i].h /= 0
                               /\ pc = "enum" => oslog[i].h \in DOMAIN modules
          /\ \A i \in CallsOf("BeginUpdateResource") :
                oslog[i].ok => /\ frame.update_handle = oslog[i].h
                               /\ oslog[i].h /= 0
                               /\ pc = "update" => oslog[i].h \in DOMAIN sessions
          /\ (/\ Done
              /\ frame.fn = "getResourcesFromDLL"
              /\ frame.source \in ValidPaths
              /\ oslog[1].ok)
             => outcome = "returned"

\* A call raised on a path that is no binary, and the same function called
\* again on a valid file went through.
C9_Witness ==
    /\ PreviousFailedToOpen
    /\ Done
    /\ outcome = "returned"
    /\ frame.fn = Last(history).fn
    /\ frame.fn \in {"getResourcesFromDLL", "addResourceToFile"}
    /\ oslog[1].ok

----------------------------------------------------------------------------
(* C10: the library handle of a successful load is released exactly once   *)
(* on every exit path of getResourcesFromDLL: never twice, once when the   *)
(* call is over (also when reading a resource failed), and no handle is    *)
(* released that was not loaded.                                           *)
FreesOf(h) == {i \in CallsOf("FreeLibrary") : oslog[i].h = h}

C10_LibraryFreedOnce ==
    /\ \A i \in CallsOf("LoadLibraryEx") :
          oslog[i].ok
          => /\ Cardinality(FreesOf(oslog[i].h)) <= 1
             /\ pc /= "enum" => /\ Cardinality(FreesOf(oslog[i].h)) = 1
                                /\ oslog[i].h \notin DOMAIN modules
             /\ pc = "enum" => /\ FreesOf(oslog[i].h) = {}
                               /\ oslog[i].h \in DOMAIN modules
    /\ \A i \in CallsOf("FreeLibrary") :
          \E j \in CallsOf("LoadLibraryEx") :
             j < i /\ oslog[j].ok /\ oslog[j].h = oslog[i].h
    /\ pc /= "enum" => DOMAIN modules = {}

\* getResourcesFromDLL is over after a read of a resource failed.
C10_Witness ==
    /\ Done
    /\ frame.hmodule /= 0
    /\ \E i \in CallsOf("LoadResource") : ~oslog[i].ok
    /\ Cardinality(FreesOf(frame.hmodule)) = 1
    /\ Len(frame.result) = 2

----------------------------------------------------------------------------
(* C11: extraction fails with an error when FindResource or LoadResource   *)
(* returns null: the call raises, no record is added for that resource,    *)
(* and copyResourcesFromFileToFile stages only payloads read from the      *)
(* source.  The callback tests neither result and appends a record of      *)
(* whatever string_at yields.                                              *)
FailedReads ==
    {i \in CallsOf("FindResourceA") \cup CallsOf("LoadResource") :
        ~oslog[i].ok}

C11_FailedReadRaises ==
    /\ \A i \in FailedReads :
          /\ \A j \in 1..Len(frame.result) :
                frame.result[j][2] /= oslog[i].name
          /\ Done => outcome = "raised"
    /\ frame.fn = "copyResourcesFromFileToFile"
       => \A i \in CallsOf("UpdateResourceA") :
             /\ oslog[i].data /= None
             /\ oslog[i].data[1] \in Extract(before.files[frame.source],
                                             oslog[i].kind, oslog[i].name)

----------------------------------------------------------------------------
(* C12: getResourcesFromDLL on a file that loads and holds no resource of  *)
(* the requested kind returns the empty list, raises nothing and releases  *)
(* the library handle.                                                     *)
C12_EmptyKindReturnsEmpty ==
    (/\ Done
     /\ frame.fn = "getResourcesFromDLL"
     /\ frame.hmodule /= 0
     /\ ~HasKind(before.files[frame.source], frame.resource_kind))
    => /\ outcome = "returned"
       /\ frame.result = << >>
       /\ Cardinality(FreesOf(frame.hmodule)) = 1
       /\ frame.hmodule \notin DOMAIN modules
       /\ DOMAIN modules = before.modules

\* The file holds resources, of the other kind only, and EnumResourceNames
\* answered FALSE.
C12_Witness ==
    /\ Done
    /\ frame.fn = "getResourcesFromDLL"
    /\ frame.hmodule /= 0
    /\ frame.with_data
    /\ before.files[frame.source] /= {}
    /\ ~HasKind(before.files[frame.source], frame.resource_kind)
    /\ \E i \in CallsOf("EnumResourceNamesA") : ~oslog[i].ok
    /\ outcome = "returned"

----------------------------------------------------------------------------
(* C13: an update handle is not used again once it is terminal.  Over any  *)
(* sequence of calls of the composition functions: a stage or commit call  *)
(* is never made with a handle that _closeFileWindowsResources has been    *)
(* invoked on, in this call or in an earlier one, whether that commit      *)
(* succeeded or raised; so a handle is committed at most once.             *)
ClosedBefore == UNION {history[k].closed : k \in 1..Len(history)}

C13_TerminalHandleNotReused ==
    \A i \in CallsOf("UpdateResourceA") \cup CallsOf("EndUpdateResourceA") :
       /\ oslog[i].h \notin ClosedBefore
       /\ \A j \in CallsOf("EndUpdateResourceA") :
             j < i => oslog[j].h /= oslog[i].h

\* A second session follows one whose commit raised.
C13_Witness ==
    /\ Done
    /\ history /= << >>
    /\ Last(history).raised_at = "close"
    /\ Last(history).closed /= {}
    /\ CallsOf("UpdateResourceA") /= {}
    /\ CallsOf("EndUpdateResourceA") /= {}

----------------------------------------------------------------------------
(* C14: at most one update handle is open against a file at any time, over *)
(* any sequence of calls of one caller, the ones that failed while staging *)
(* included.  The functions leave their handle open when staging raises    *)
(* (see C7, C1), BeginUpdateResource holds no lock on the file, and the    *)
(* next call on the file opens a second handle.                            *)
C14_OneOpenHandlePerFile ==
    \A h1 \in DOMAIN sessions, h2 \in DOMAIN sessions :
       sessions[h1].path = sessions[h2].path => h1 = h2

----------------------------------------------------------------------------
(* C15: the calls of a copy.  When the source has n >= 1 resources of the  *)
(* kind and every OS call succeeds, copyResourcesFromFileToFile frees the  *)
(* source library, then begins one session on the target, stages n times   *)
(* in enumeration order with the requested kind, and commits once, after   *)
(* the last stage.                                                         *)

\* oslog is the log of a copy of the resources named names, in that order.
CopyLogIs(names) ==
    LET n == Len(names)
        K == frame.resource_kind
    IN  /\ Len(oslog) = 4 * n + 5
        /\ oslog[1].call = "LoadLibraryEx"
        /\ \A j \in 1..n :
              /\ oslog[3 * j - 1].call = "FindResourceA"
              /\ oslog[3 * j - 1].name = names[j]
              /\ oslog[3 * j].call = "LoadResource"
              /\ oslog[3 * j + 1].call = "FreeResource"
        /\ oslog[3 * n + 2].call = "EnumResourceNamesA"
        /\ oslog[3 * n + 3].call = "FreeLibrary"
        /\ oslog[3 * n + 3].h = oslog[1].h
        /\ oslog[3 * n + 4].call = "BeginUpdateResource"
        /\ oslog[3 * n + 4].path = frame.target
        /\ \A j \in 1..n :
              /\ oslog[3 * n + 4 + j].call = "UpdateResourceA"
              /\ oslog[3 * n + 4 + j].h = oslog[3 * n + 4].h
              /\ oslog[3 * n + 4 + j].kind = K
              /\ oslog[3 * n + 4 + j].name = names[j]
        /\ oslog[4 * n + 5].call = "EndUpdateResourceA"
        /\ oslog[4 * n + 5].h = oslog[3 * n + 4].h

CopySucceeded ==
    /\ Done
    /\ frame.fn = "copyResourcesFromFileToFile"
    /\ AllOk
    /\ frame.source \in ValidPaths
    /\ HasKind(before.files[frame.source], frame.resource_kind)

\* As stated: n is the number of resources of the kind in the source.  A
\* source that holds one identifier under two languages has two of them.
C15_CopyStagesEveryResource ==
    CopySucceeded
    => LET src == before.files[frame.source]
           K == frame.resource_kind
       IN  /\ outcome = "returned"
           /\ Cardinality(CallsOf("UpdateResourceA"))
                 = Cardinality(OfKinds(src, {K}))
           /\ CopyLogIs(EnumResourceNames(src, K))

\* n is the number of identifiers the enumeration yields.
C15_CopyStagesEveryName ==
    CopySucceeded
    => LET src == before.files[frame.source]
           K == frame.resource_kind
       IN  /\ outcome = "returned"
           /\ Cardinality(CallsOf("UpdateResourceA"))
                 = Len(EnumResourceNames(src, K))
           /\ Cardinality(CallsOf("BeginUpdateResource")) = 1
           /\ Cardinality(CallsOf("EndUpdateResourceA")) = 1
           /\ CopyLogIs(EnumResourceNames(src, K))

\* A copy of two resources into another file.
C15_Witness ==
    /\ CopySucceeded
    /\ outcome = "returned"
    /\ frame.source /= frame.target
    /\ Len(EnumResourceNames(before.files[frame.source],
                             frame.resource_kind)) = 2

----------------------------------------------------------------------------
(* C16: getResourcesFromDLL returns one entry for every name the OS        *)
(* reports under the kind, in the OS's order, none dropped, duplicated or  *)
(* reordered; the enumeration never stops early.  At every point of the    *)
(* enumeration the names recorded so far followed by the names still to    *)
(* come are the names of the directory.  A read that raises inside the     *)
(* callback (see C11) drops the entry and may stop the enumeration.        *)
ResultNames ==
    [j \in 1..Len(frame.result) |->
        IF frame.with_data THEN frame.result[j][2] ELSE frame.result[j]]

C16_EveryNameReturned ==
    (/\ frame.fn \in {"getResourcesFromDLL", "copyResourcesFromFileToFile"}
     /\ frame.hmodule /= 0)
    => ResultNames \o frame.todo
          = EnumResourceNames(before.files[frame.source], frame.resource_kind)

\* The same for calls that list the names only: then it holds.
C16_EveryNameReturnedWithoutData == ~frame.with_data => C16_EveryNameReturned

----------------------------------------------------------------------------
(* C17: each LoadResource is followed by exactly one FreeResource of the   *)
(* same block, whether or not reading the bytes succeeded, before the      *)
(* callback is run for the next name and before FreeLibrary.               *)
C17_BlockReleasedOnce ==
    /\ \A i \in CallsOf("LoadResource") :
          /\ i < Len(oslog)
          /\ oslog[i + 1].call = "FreeResource"
          /\ oslog[i + 1].name = oslog[i].name
          /\ oslog[i + 1].ok = oslog[i].ok
    /\ \A i \in CallsOf("FreeResource") :
          /\ i > 1
          /\ oslog[i - 1].call = "LoadResource"
          /\ \A j \in CallsOf("FreeLibrary") : i < j
    /\ Cardinality(CallsOf("FreeResource"))
          = Cardinality(CallsOf("LoadResource"))

\* Two resources were read: string_at raised for one, whose LoadResource had
\* failed, and the other was read in full.
C17_Witness ==
    /\ Done
    /\ CallsOf("FreeLibrary") /= {}
    /\ Len(frame.result) = 1
    /\ \E i \in CallsOf("LoadResource"), j \in CallsOf("LoadResource") :
          /\ ~oslog[i].ok
          /\ oslog[i - 1].ok
          /\ oslog[j].ok
          /\ frame.result[1][2] = oslog[j].name
          /\ oslog[i].name /= oslog[j].name

----------------------------------------------------------------------------
(* C18: every stage reaches the OS with language 0, whatever lang argument *)
(* _updateResource was called with and in every composition function, so  *)
(* only language-0 entries are added, replaced or deleted: the entries of  *)
(* the other languages of every file stay as they were.                    *)
OtherLanguages(dir) == {e \in dir : e.lang /= 0}

C18_NeutralLanguageOnly ==
    /\ \A i \in CallsOf("UpdateResourceA") : oslog[i].lang = 0
    /\ \A h \in DOMAIN sessions :
          \A k \in 1..Len(sessions[h].pending) : sessions[h].pending[k].lang = 0
    /\ \A p \in ValidPaths :
          OtherLanguages(files[p]) = OtherLanguages(before.files[p])

\* A session staged a change with a lang argument other than 0 for a name
\* the file holds under that language, and committed.
C18_Witness ==
    /\ Done
    /\ outcome = "returned"
    /\ frame.fn = "_openFileWindowsResources"
    /\ frame.lang /= 0
    /\ \E e \in OtherLanguages(before.files[frame.target]) :
          /\ e.lang = frame.lang
          /\ e.kind = oslog[Len(oslog) - 1].kind
          /\ e.name = oslog[Len(oslog) - 1].name
    /\ oslog[Len(oslog) - 1].call = "UpdateResourceA"
    /\ files /= before.files

----------------------------------------------------------------------------
(* C19: the assertion of copyResourcesFromFileToFile never fails: every    *)
(* record getResourcesFromDLL produces with with_data carries the kind     *)
(* that was requested.                                                     *)
C19_AssertNeverFails ==
    /\ frame.raised_at /= "assert"
    /\ frame.with_data
       => \A j \in 1..Len(frame.result) :
             frame.result[j][1] = frame.resource_kind

\* A copy went through the assertion for two records.
C19_Witness ==
    /\ Done
    /\ frame.fn = "copyResourcesFromFileToFile"
    /\ Len(frame.result) = 2
    /\ Cardinality(CallsOf("UpdateResourceA")) = 2
    /\ outcome = "returned"

----------------------------------------------------------------------------
(* C20: deleteWindowsResources with an empty list still opens a session on *)
(* the file and commits it with nothing staged; after it returns the files *)
(* are unchanged and no update handle is open.  In a process that has not  *)
(* imported ctypes.wintypes the function raises AttributeError before it   *)
(* opens anything.                                                         *)
C20_EmptyDeleteCommits ==
    (/\ Done
     /\ frame.fn = "deleteWindowsResources"
     /\ frame.res_names = << >>)
    => /\ oslog /= << >>
       /\ oslog[1].call = "BeginUpdateResource"
       /\ oslog[1].path = frame.target
       /\ CallsOf("UpdateResourceA") = {}
       /\ oslog[1].ok
          => /\ Len(oslog) = 2
             /\ oslog[2].call = "EndUpdateResourceA"
             /\ oslog[2].h = oslog[1].h
       /\ outcome = "returned"
          => /\ files = before.files
             /\ DOMAIN sessions = before.sessions

\* The same in a process that has imported ctypes.wintypes: then it holds.
C20_EmptyDeleteCommitsOnceImported == wintypes => C20_EmptyDeleteCommits

====
